---- MODULE Spec2Model ----
(***************************************************************************)
(* Intent extraction and turn handling of the Comput3AI plugin:           *)
(* the LAUNCH_WORKLOAD and STOP_WORKLOAD handlers, the validators that     *)
(* gate a candidate, and the deterministic text extractors.                *)
(*                                                                         *)
(* JavaScript strings that the regular expressions inspect are sequences   *)
(* of one-character strings, so that matching is done on characters as in  *)
(* the source.  Messages that are only produced (error texts) are plain    *)
(* strings.                                                                *)
(***************************************************************************)
EXTENDS Integers, Sequences, FiniteSets, TLC

\* ------------------------------------------------------------------------
\* Bounds of the model
\* ------------------------------------------------------------------------

\* number of vocabulary words a generated message text is made of
MaxWords == 2

\* number of distinct clock readings Date.now() can give
MaxClock == 1

\* ------------------------------------------------------------------------
\* Characters and character classes
\* ------------------------------------------------------------------------

UpperChars == <<"A","B","C","D","E","F","G","H","I","J","K","L","M","N","O","P","Q","R","S","T","U","V","W","X","Y","Z">>

LowerChars == <<"a","b","c","d","e","f","g","h","i","j","k","l","m","n","o","p","q","r","s","t","u","v","w","x","y","z">>

DigitChars == <<"0","1","2","3","4","5","6","7","8","9">>

UpperSet == { UpperChars[i] : i \in 1..26 }

LowerSet == { LowerChars[i] : i \in 1..26 }

DigitSet == { DigitChars[i] : i \in 1..10 }

LowerOf == [c \in UpperSet |-> LowerChars[CHOOSE i \in 1..26 : UpperChars[i] = c]]

\* the i flag of every pattern: letters compare by their lower-case form
Lower(c) == IF c \in UpperSet THEN LowerOf[c] ELSE c

LowerSeq(s) == [i \in 1..Len(s) |-> Lower(s[i])]

\* [a-zA-Z]
AlphaSet == LowerSet \cup UpperSet

\* [a-zA-Z0-9]
AlnumSet == AlphaSet \cup DigitSet

\* [0-9a-f] under the i flag
HexSet == DigitSet \cup {"a", "b", "c", "d", "e", "f", "A", "B", "C", "D", "E", "F"}

\* [a-zA-Z0-9-]
AlnumHyphenSet == AlnumSet \cup {"-"}

\* [a-zA-Z0-9-_]
AlnumHyphenUnderscoreSet == AlnumSet \cup {"-", "_"}

\* \s
SpaceSet == {" ", "\t", "\n"}

\* [:\s]
ColonOrSpaceSet == SpaceSet \cup {":"}

DigitValue(c) == (CHOOSE i \in 1..10 : DigitChars[i] = c) - 1

\* Number.parseInt(digits, 10) of a non-empty run of digits
RECURSIVE parseInt(_)
parseInt(ds) ==
    IF Len(ds) = 0 THEN 0
    ELSE 10 * parseInt(SubSeq(ds, 1, Len(ds) - 1)) + DigitValue(ds[Len(ds)])

\* ------------------------------------------------------------------------
\* Matching primitives
\* ------------------------------------------------------------------------

\* the literal lit stands in t at position i
LitAt(t, i, lit) ==
    /\ i >= 1
    /\ i + Len(lit) - 1 <= Len(t)
    /\ \A k \in 1..Len(lit) : t[i + k - 1] = lit[k]

\* an unanchored literal pattern matches somewhere in t
HasLit(t, lit) == \E i \in 1..Len(t) : LitAt(t, i, lit)

\* an unanchored pattern a.*b matches: b after a with no line break between
HasLitGapLit(t, a, b) ==
    \E i \in 1..Len(t) :
        /\ LitAt(t, i, a)
        /\ \E j \in (i + Len(a))..Len(t) :
              /\ LitAt(t, j, b)
              /\ \A k \in (i + Len(a))..(j - 1) : t[k] # "\n"

\* first position after the longest run of class characters starting at i
RunEnd(t, i, cls) ==
    CHOOSE j \in i..(Len(t) + 1) :
        /\ (j = Len(t) + 1 \/ t[j] \notin cls)
        /\ \A k \in i..(j - 1) : t[k] \in cls

\* least element of a non-empty set of positions (leftmost match)
Leftmost(S) == CHOOSE i \in S : \A j \in S : i <= j

\* ------------------------------------------------------------------------
\* JavaScript values
\* ------------------------------------------------------------------------

\* a property that is not on the object; reading it gives undefined
Absent == [t |-> "absent", n |-> 0, s |-> << >>]

Undefined == [t |-> "undefined", n |-> 0, s |-> << >>]

Null == [t |-> "null", n |-> 0, s |-> << >>]

Num(k) == [t |-> "number", n |-> k, s |-> << >>]

Str(cs) == [t |-> "string", n |-> 0, s |-> cs]

\* typeof v
TypeOf(v) ==
    CASE v.t = "absent" -> "undefined"
      [] v.t = "undefined" -> "undefined"
      [] v.t = "null" -> "object"
      [] v.t = "number" -> "number"
      [] v.t = "string" -> "string"

\* !!v
Truthy(v) ==
    CASE v.t = "number" -> v.n # 0
      [] v.t = "string" -> v.s # << >>
      [] OTHER -> FALSE

\* v === undefined
IsUndefined(v) == v.t \in {"absent", "undefined"}

\* ------------------------------------------------------------------------
\* Pattern library
\* ------------------------------------------------------------------------

media_fast == <<"m","e","d","i","a",":","f","a","s","t">>

ollama_webui_coder == <<"o","l","l","a","m","a","_","w","e","b","u","i",":","c","o","d","e","r">>

ollama_webui_fast == <<"o","l","l","a","m","a","_","w","e","b","u","i",":","f","a","s","t">>

ollama_webui_large == <<"o","l","l","a","m","a","_","w","e","b","u","i",":","l","a","r","g","e">>

llama_webui_coder == <<"l","l","a","m","a","_","w","e","b","u","i",":","c","o","d","e","r">>

\* the keys of WORKLOAD_TYPE_PATTERNS in declaration order
WorkloadTypes ==
    << media_fast, ollama_webui_coder, ollama_webui_fast,
       ollama_webui_large, llama_webui_coder >>

\* a pattern is <<lit>> for /lit/i and <<a, b>> for /a.*b/i
WORKLOAD_TYPE_PATTERNS ==
    << \* "media:fast"
       << << <<"m","e","d","i","a",":","f","a","s","t">> >>,
          << <<"m","e","d","i","a"," ","f","a","s","t">> >>,
          << <<"f","a","s","t"," ","m","e","d","i","a">> >>,
          << <<"m","e","d","i","a">>, <<"f","a","s","t">> >> >>,
       \* "ollama_webui:coder"
       << << <<"o","l","l","a","m","a","_","w","e","b","u","i",":","c","o","d","e","r">> >>,
          << <<"o","l","l","a","m","a"," ","w","e","b","u","i",":","c","o","d","e","r">> >>,
          << <<"o","l","l","a","m","a"," ","w","e","b","u","i"," ","c","o","d","e","r">> >>,
          << <<"o","l","l","a","m","a">>, <<"c","o","d","e","r">> >>,
          << <<"c","o","d","e","r"," ","w","o","r","k","l","o","a","d">> >>,
          << <<"c","o","d","i","n","g"," ","w","o","r","k","l","o","a","d">> >>,
          << <<"w","o","r","k","l","o","a","d">>, <<"c","o","d","i","n","g">> >>,
          << <<"w","o","r","k","l","o","a","d">>, <<"c","o","d","e">> >> >>,
       \* "ollama_webui:fast"
       << << <<"o","l","l","a","m","a","_","w","e","b","u","i",":","f","a","s","t">> >>,
          << <<"o","l","l","a","m","a"," ","w","e","b","u","i",":","f","a","s","t">> >>,
          << <<"o","l","l","a","m","a"," ","w","e","b","u","i"," ","f","a","s","t">> >>,
          << <<"o","l","l","a","m","a">>, <<"f","a","s","t">> >>,
          << <<"o","l","l","a","m","a"," ","f","a","s","t">> >>,
          << <<"f","a","s","t"," ","o","l","l","a","m","a">> >> >>,
       \* "ollama_webui:large"
       << << <<"o","l","l","a","m","a","_","w","e","b","u","i",":","l","a","r","g","e">> >>,
          << <<"o","l","l","a","m","a"," ","w","e","b","u","i",":","l","a","r","g","e">> >>,
          << <<"o","l","l","a","m","a"," ","w","e","b","u","i"," ","l","a","r","g","e">> >>,
          << <<"o","l","l","a","m","a">>, <<"l","a","r","g","e">> >>,
          << <<"l","a","r","g","e"," ","o","l","l","a","m","a">> >>,
          << <<"o","l","l","a","m","a"," ","l","a","r","g","e">> >> >>,
       \* "llama_webui:coder"
       << << <<"l","l","a","m","a","_","w","e","b","u","i",":","c","o","d","e","r">> >>,
          << <<"l","l","a","m","a"," ","w","e","b","u","i",":","c","o","d","e","r">> >>,
          << <<"l","l","a","m","a"," ","w","e","b","u","i"," ","c","o","d","e","r">> >>,
          << <<"l","l","a","m","a">>, <<"c","o","d","e","r">> >>,
          << <<"l","l","a","m","a"," ","c","o","d","e","r">> >> >> >>

\* a test that no pattern of the library passes
TestPatternNever(t, p) == FALSE

\* pattern.test(text) for a pattern of the library, t the lower-cased text
TestPattern(t, p) ==
    IF Len(p) = 1 THEN HasLit(t, p[1]) ELSE HasLitGapLit(t, p[1], p[2])

\* some pattern of the k-th type matches
TypeMatches(t, k) ==
    \E q \in 1..Len(WORKLOAD_TYPE_PATTERNS[k]) :
        TestPattern(t, WORKLOAD_TYPE_PATTERNS[k][q])

\* text.match(/w1|w2|.../i) is not null, t the lower-cased text
MatchesAny(t, words) == \E w \in words : HasLit(t, w)

CodingKeywords ==
    { <<"c","o","d","e","r">>, <<"c","o","d","i","n","g">>, <<"c","o","d","e">>, <<"d","e","v","e","l","o","p","e","r">>, <<"d","e","v","e","l","o","p","m","e","n","t">> }

MediaKeywords == { <<"m","e","d","i","a">>, <<"v","i","d","e","o">>, <<"a","u","d","i","o">>, <<"s","t","r","e","a","m","i","n","g">> }

SizeKeywords == { <<"l","a","r","g","e">>, <<"b","i","g">>, <<"p","o","w","e","r","f","u","l">> }

SpeedKeywords == { <<"f","a","s","t">>, <<"q","u","i","c","k">>, <<"s","p","e","e","d">> }

\* ------------------------------------------------------------------------
\* Field extractors
\* ------------------------------------------------------------------------

\* an extraction in which the type declared last wins
extractWorkloadTypeLastDeclared(text) ==
    LET t == LowerSeq(text)
        direct == {k \in 1..Len(WorkloadTypes) : TypeMatches(t, k)}
    IN  IF text = << >> THEN Null
        ELSE IF direct # {}
        THEN Str(WorkloadTypes[CHOOSE k \in direct : \A j \in direct : j <= k])
        ELSE IF MatchesAny(t, CodingKeywords) THEN Str(ollama_webui_coder)
        ELSE IF MatchesAny(t, MediaKeywords) THEN Str(media_fast)
        ELSE IF MatchesAny(t, SizeKeywords) THEN Str(ollama_webui_large)
        ELSE IF MatchesAny(t, SpeedKeywords) THEN Str(ollama_webui_fast)
        ELSE Null

\* an extraction that asks for the media keywords before the coding ones
extractWorkloadTypeMediaFirst(text) ==
    LET t == LowerSeq(text)
        direct == {k \in 1..Len(WorkloadTypes) : TypeMatches(t, k)}
    IN  IF text = << >> THEN Null
        ELSE IF direct # {} THEN Str(WorkloadTypes[Leftmost(direct)])
        ELSE IF MatchesAny(t, MediaKeywords) THEN Str(media_fast)
        ELSE IF MatchesAny(t, CodingKeywords) THEN Str(ollama_webui_coder)
        ELSE IF MatchesAny(t, SizeKeywords) THEN Str(ollama_webui_large)
        ELSE IF MatchesAny(t, SpeedKeywords) THEN Str(ollama_webui_fast)
        ELSE Null

\* an extraction that takes the text itself for the type
extractWorkloadTypeEcho(text) == IF text = << >> THEN Null ELSE Str(text)

\* extractWorkloadType(text): Str(type) or Null
extractWorkloadType(text) ==
    LET t == LowerSeq(text)
        direct == {k \in 1..Len(WorkloadTypes) : TypeMatches(t, k)}
    IN  IF text = << >> THEN Null
        ELSE IF direct # {} THEN Str(WorkloadTypes[Leftmost(direct)])
        ELSE IF MatchesAny(t, CodingKeywords) THEN Str(ollama_webui_coder)
        ELSE IF MatchesAny(t, MediaKeywords) THEN Str(media_fast)
        ELSE IF MatchesAny(t, SizeKeywords) THEN Str(ollama_webui_large)
        ELSE IF MatchesAny(t, SpeedKeywords) THEN Str(ollama_webui_fast)
        ELSE Null

\* (\d+)\s*unit stands at i: a digit run, optional white space, the unit
DigitsUnitAt(t, i, unit) ==
    /\ i >= 1
    /\ i <= Len(t)
    /\ t[i] \in DigitSet
    /\ LitAt(t, RunEnd(t, RunEnd(t, i, DigitSet), SpaceSet), unit)

\* first position after (\d+)\s*min(ute)?s? when that ends at e
MinutesTailEnds(t, i) ==
    LET m == RunEnd(t, RunEnd(t, i, DigitSet), SpaceSet) + 3
        u == IF LitAt(t, m, <<"u","t","e">>) THEN {m, m + 3} ELSE {m}
    IN  u \cup {e + 1 : e \in {x \in u : LitAt(t, x, <<"s">>)}}

\* the five expirationPatterns: does pattern k match starting at i
ExpirationAt(t, k, i) ==
    CASE k = 1 ->
           \/ LitAt(t, i, <<"e","x","p","i","r","e","s"," ","i","n"," ">>) /\ DigitsUnitAt(t, i + 11, <<"m","i","n">>)
           \/ LitAt(t, i, <<"e","x","p","i","r","e"," ","i","n"," ">>) /\ DigitsUnitAt(t, i + 10, <<"m","i","n">>)
      [] k = 2 -> LitAt(t, i, <<"f","o","r"," ">>) /\ DigitsUnitAt(t, i + 4, <<"m","i","n">>)
      [] k = 3 ->
           /\ DigitsUnitAt(t, i, <<"m","i","n">>)
           /\ \E e \in MinutesTailEnds(t, i) : LitAt(t, e, <<" ","e","x","p","i","r">>)
      [] k = 4 -> DigitsUnitAt(t, i, <<"m","i","n">>)
      [] k = 5 -> DigitsUnitAt(t, i, <<"h","o","u","r">>)

\* the position of the digits captured by pattern k matching at i
ExpirationDigitsAt(t, k, i) ==
    CASE k = 1 -> IF LitAt(t, i, <<"e","x","p","i","r","e","s"," ","i","n"," ">>) THEN i + 11 ELSE i + 10
      [] k = 2 -> i + 4
      [] OTHER -> i

ExpirationMatches(t, k) == {i \in 1..Len(t) : ExpirationAt(t, k, i)}

\* match[1] of text.match(expirationPatterns[k])
ExpirationCapture(t, k) ==
    LET d == ExpirationDigitsAt(t, k, Leftmost(ExpirationMatches(t, k)))
    IN  SubSeq(t, d, RunEnd(t, d, DigitSet) - 1)

\* an extraction that gives 0 where no duration is found
extractExpirationTimeZero(text, defaultMinutes) ==
    LET t == LowerSeq(text)
        hit == {k \in 1..5 : ExpirationMatches(t, k) # {}}
    IN  IF text = << >> \/ hit = {} THEN 0
        ELSE LET k == Leftmost(hit)
                 value == parseInt(ExpirationCapture(t, k))
             IN  IF k = 5 THEN value * 60 ELSE value

\* an extraction in which the last matching pattern wins
extractExpirationTimeLastWins(text, defaultMinutes) ==
    LET t == LowerSeq(text)
        hit == {k \in 1..5 : ExpirationMatches(t, k) # {}}
    IN  IF text = << >> \/ hit = {} THEN defaultMinutes
        ELSE LET k == CHOOSE x \in hit : \A y \in hit : y <= x
                 value == parseInt(ExpirationCapture(t, k))
             IN  IF k = 5 THEN value * 60 ELSE value

\* extractExpirationTime(text, defaultMinutes)
extractExpirationTime(text, defaultMinutes) ==
    LET t == LowerSeq(text)
        hit == {k \in 1..5 : ExpirationMatches(t, k) # {}}
    IN  IF text = << >> \/ hit = {} THEN defaultMinutes
        ELSE LET k == Leftmost(hit)
                 value == parseInt(ExpirationCapture(t, k))
             IN  IF k = 5 THEN value * 60 ELSE value

\* n characters of class hex stand at i
HexAt(t, i, n) ==
    /\ i >= 1
    /\ i + n - 1 <= Len(t)
    /\ \A k \in i..(i + n - 1) : t[k] \in HexSet

\* uuidPattern matches starting at i
UuidAt(t, i) ==
    /\ HexAt(t, i, 8) /\ LitAt(t, i + 8, <<"-">>)
    /\ HexAt(t, i + 9, 4) /\ LitAt(t, i + 13, <<"-">>)
    /\ HexAt(t, i + 14, 4) /\ LitAt(t, i + 18, <<"-">>)
    /\ HexAt(t, i + 19, 4) /\ LitAt(t, i + 23, <<"-">>)
    /\ HexAt(t, i + 24, 12)

\* comput3DomainPattern matches starting at i
DomainAt(t, i) ==
    /\ t[i] \in AlnumHyphenSet
    /\ LitAt(t, RunEnd(t, i, AlnumHyphenSet), <<".","c","o","m","p","u","t","3",".","a","i">>)

\* /wrk_([a-zA-Z0-9]+)/i matches starting at i
WrkAt(t, i) ==
    /\ LitAt(t, i, <<"w","r","k","_">>)
    /\ i + 4 <= Len(t)
    /\ t[i + 4] \in AlnumSet

\* /workload[:\s]+([a-zA-Z0-9-_]+)/i matches starting at i
WorkloadTokenAt(t, i) ==
    /\ LitAt(t, i, <<"w","o","r","k","l","o","a","d">>)
    /\ i + 8 <= Len(t)
    /\ t[i + 8] \in ColonOrSpaceSet
    /\ LET c == RunEnd(t, i + 8, ColonOrSpaceSet)
       IN  c <= Len(t) /\ t[c] \in AlnumHyphenUnderscoreSet

\* first position after [a-zA-Z]+- starting at i, or 0 when it does not match
AlphaHyphenEnd(t, i) ==
    IF i >= 1 /\ i <= Len(t) /\ t[i] \in AlphaSet
       /\ LitAt(t, RunEnd(t, i, AlphaSet), <<"-">>)
    THEN RunEnd(t, i, AlphaSet) + 1
    ELSE 0

\* first position after three [a-zA-Z]+- groups starting at i, or 0
ThreeGroupsEnd(t, i) ==
    LET a == AlphaHyphenEnd(t, i)
        b == IF a = 0 THEN 0 ELSE AlphaHyphenEnd(t, a)
    IN  IF b = 0 THEN 0 ELSE AlphaHyphenEnd(t, b)

\* the four hyphen-joined alphabetic words pattern matches starting at i
FourWordsAt(t, i) ==
    LET c == ThreeGroupsEnd(t, i)
    IN  c # 0 /\ c <= Len(t) /\ t[c] \in AlphaSet

\* an extraction that looks for a wrk_ token before it looks for a UUID
extractWorkloadIdWrkFirst(text) ==
    LET t == LowerSeq(text)
        P == 1..Len(t)
        uu == {i \in P : UuidAt(t, i)}
        ww == {i \in P : WrkAt(t, i)}
    IN  IF ww # {}
        THEN Str(<<"w","r","k","_">> \o SubSeq(text, Leftmost(ww) + 4,
                                   RunEnd(t, Leftmost(ww) + 4, AlnumSet) - 1))
        ELSE IF uu # {} THEN Str(SubSeq(text, Leftmost(uu), Leftmost(uu) + 35))
        ELSE Null

\* extractWorkloadId(text): Str(id) or Null
extractWorkloadId(text) ==
    LET t == LowerSeq(text)
        P == 1..Len(t)
        uu == {i \in P : UuidAt(t, i)}
        dd == {i \in P : DomainAt(t, i)}
        ww == {i \in P : WrkAt(t, i)}
        kk == {i \in P : WorkloadTokenAt(t, i)}
        ff == {i \in P : FourWordsAt(t, i)}
    IN  IF text = << >> THEN Null
        ELSE IF uu # {} THEN Str(SubSeq(text, Leftmost(uu), Leftmost(uu) + 35))
        ELSE IF dd # {}
        THEN Str(SubSeq(text, Leftmost(dd),
                        RunEnd(t, Leftmost(dd), AlnumHyphenSet) + 10))
        ELSE IF ww # {}
        THEN Str(<<"w","r","k","_">> \o SubSeq(text, Leftmost(ww) + 4,
                                   RunEnd(t, Leftmost(ww) + 4, AlnumSet) - 1))
        ELSE IF kk # {}
        THEN LET c == RunEnd(t, Leftmost(kk) + 8, ColonOrSpaceSet)
             IN  Str(SubSeq(text, c,
                            RunEnd(t, c, AlnumHyphenUnderscoreSet) - 1))
        ELSE IF ff # {}
        THEN LET c == ThreeGroupsEnd(t, Leftmost(ff))
             IN  Str(SubSeq(text, Leftmost(ff), RunEnd(t, c, AlphaSet) - 1))
        ELSE Null

\* the default of extractExpirationTime's defaultMinutes parameter
DefaultMinutes == 10

\* a candidate object, or JavaScript null when obj = "null"
Candidate(type, expires, workload) ==
    [obj |-> "object", type |-> type, expires |-> expires, workload |-> workload]

NullCandidate ==
    [obj |-> "null", type |-> Absent, expires |-> Absent, workload |-> Absent]

\* validateLaunchWorkloadFromText(text): {type, expires} or null
validateLaunchWorkloadFromText(text) ==
    LET type == extractWorkloadType(text)
    IN  IF ~Truthy(type) THEN NullCandidate
        ELSE Candidate(type, Num(extractExpirationTime(text, DefaultMinutes)),
                       Absent)

\* validateStopWorkloadFromText without its extraction: it finds nothing
validateStopWorkloadFromTextNone(text) == NullCandidate

\* validateStopWorkloadFromText(text): {workload} or null
validateStopWorkloadFromText(text) ==
    LET workload == extractWorkloadId(text)
    IN  IF ~Truthy(workload) THEN NullCandidate
        ELSE Candidate(Absent, Absent, workload)

\* ------------------------------------------------------------------------
\* Intent validators
\* ------------------------------------------------------------------------

\* a launch validator without the test of expires
isLaunchWorkloadContentTypeOnly(content) ==
    IF content.obj = "null" THEN "throws"
    ELSE IF ~Truthy(content.type) \/ TypeOf(content.type) # "string"
    THEN "false"
    ELSE "true"

\* isLaunchWorkloadContent(content): "true", "false", or "throws" when the
\* property read content.type is made on null
isLaunchWorkloadContent(content) ==
    IF content.obj = "null" THEN "throws"
    ELSE IF ~Truthy(content.type) \/ TypeOf(content.type) # "string"
    THEN "false"
    ELSE IF ~IsUndefined(content.expires) /\ TypeOf(content.expires) # "number"
    THEN "false"
    ELSE "true"

\* a stop validator without the test for the empty string
isStopWorkloadContentAnyString(content) ==
    IF content.obj = "null" THEN "throws"
    ELSE IF TypeOf(content.workload) # "string" THEN "false"
    ELSE "true"

\* isStopWorkloadContent(content): "true", "false", or "throws" when the
\* property read content.workload is made on null
isStopWorkloadContent(content) ==
    IF content.obj = "null" THEN "throws"
    ELSE IF ~Truthy(content.workload) \/ TypeOf(content.workload) # "string"
    THEN "false"
    ELSE "true"

\* ------------------------------------------------------------------------
\* Constants of the plugin
\* ------------------------------------------------------------------------

MISSING_API_KEY == "Comput3AI API key is required but not provided"

INVALID_WORKLOAD_ID == "Invalid workload ID provided"

NETWORK_ERROR == "Network error occurred while connecting to the Comput3AI API"

UNKNOWN_ERROR == "An unknown error occurred"

INVALID_WORKLOAD_TYPE == "Invalid workload type provided"

\* the message of the TypeError of a property read on null
NullReadError == "Cannot read properties of null"

\* the status the handlers single out for the gateway wording
BadGateway == 502

\* launchParams.expires when the candidate has none, in minutes
DefaultExpires == 10

\* seconds per minute in the conversion of the request's expires
SecondsPerMinute == 60

\* ------------------------------------------------------------------------
\* Inputs of a turn
\* ------------------------------------------------------------------------

ExampleUuid == <<"7","b","6","9","3","1","4","d","-","c","8","8","d","-","4","7","d","9","-","9","2","0","c","-","a","e","8","2","7","f","6","b","7","8","4","4">>

ExampleDomain == <<"f","i","r","m","l","y","-","w","i","d","e","l","y","-","p","r","o","u","d","-","g","p","u",".","c","o","m","p","u","t","3",".","a","i">>

\* phrases the generated launch texts are made of
LaunchPhrases ==
    { <<"m","e","d","i","a",":","f","a","s","t">>, <<"c","o","d","e","r">>, <<"f","o","r"," ","3","0"," ","m","i","n","u","t","e","s">>, <<"2"," ","h","o","u","r","s">> }

\* phrases the generated stop texts are made of
StopPhrases ==
    { ExampleUuid, <<"w","r","k","_","a","b","1","2">>, <<"w","o","r","k","l","o","a","d">>, <<"n","o","w">> }

\* the texts of at most n phrases joined by single spaces
RECURSIVE TextsUpTo(_, _)
TextsUpTo(phrases, n) ==
    IF n = 0 THEN { << >> }
    ELSE LET shorter == TextsUpTo(phrases, n - 1)
         IN  shorter \cup phrases
               \cup { t \o <<" ">> \o p : t \in shorter \ { << >> }, p \in phrases }

\* texts of the action examples and of the end-to-end scenarios
LaunchExampleTexts ==
    { <<"L","a","u","n","c","h"," ","a"," ","m","e","d","i","a",":","f","a","s","t"," ","w","o","r","k","l","o","a","d"," ","f","o","r"," ","3","0"," ","m","i","n","u","t","e","s">>,
      <<"L","a","u","n","c","h"," ","a"," ","n","e","w"," ","G","P","U"," ","w","o","r","k","l","o","a","d"," ","o","f"," ","t","y","p","e"," ","m","e","d","i","a",":","f","a","s","t"," ","t","h","a","t"," ","e","x","p","i","r","e","s"," ","i","n"," ","1","0"," ","m","i","n","u","t","e","s">>,
      <<"S","t","a","r","t"," ","a"," ","l","l","a","m","a","_","w","e","b","u","i",":","c","o","d","e","r"," ","w","o","r","k","l","o","a","d"," ","t","h","a","t"," ","e","x","p","i","r","e","s"," ","i","n"," ","3","0"," ","m","i","n","u","t","e","s">>,
      <<"c","o","d","e","r"," ","e","x","p","i","r","e","s"," ","i","n"," ","4","5"," ","m","i","n","u","t","e","s">>,
      <<"c","o","d","e","r"," ","f","o","r"," ","2"," ","h","o","u","r","s">>,
      <<"c","o","d","e","r"," ","f","o","r"," ","2"," ","h","o","u","r","s"," ","a","n","d"," ","1","5"," ","m","i","n">> }

StopExampleTexts ==
    { <<"S","t","o","p"," ","m","y"," ","w","o","r","k","l","o","a","d"," ","7","b","6","9","3","1","4","d","-","c","8","8","d","-","4","7","d","9","-","9","2","0","c","-","a","e","8","2","7","f","6","b","7","8","4","4">>,
      <<"T","e","r","m","i","n","a","t","e"," ","t","h","e"," ","G","P","U"," ","i","n","s","t","a","n","c","e"," ","f","i","r","m","l","y","-","w","i","d","e","l","y","-","p","r","o","u","d","-","g","p","u",".","c","o","m","p","u","t","3",".","a","i">>,
      <<"n","o"," ","i","d"," ","h","e","r","e">>,
      <<"f","i","r","m","l","y","-","w","i","d","e","l","y","-","p","r","o","u","d","-","g","p","u",".","c","o","m","p","u","t","3",".","a","i">>,
      <<"w","r","k","_","a","b","1","2"," ","f","i","r","m","l","y","-","w","i","d","e","l","y","-","p","r","o","u","d","-","g","p","u",".","c","o","m","p","u","t","3",".","a","i">>,
      <<"s","t","o","p"," ","f","i","r","m","l","y","-","w","i","d","e","l","y","-","p","r","o","u","d","-","g","p","u">> }

\* a text is a phrase sequence, an example, or the exact tag of a type
LaunchTexts ==
    TextsUpTo(LaunchPhrases, MaxWords) \cup LaunchExampleTexts
        \cup { WorkloadTypes[k] : k \in 1..Len(WorkloadTypes) }

StopTexts == TextsUpTo(StopPhrases, MaxWords) \cup StopExampleTexts

\* message.content; present = FALSE when the message has no content
Content(type, expires, workload, text) ==
    [present |-> TRUE, type |-> type, expires |-> expires,
     workload |-> workload, text |-> text]

NoContent ==
    [present |-> FALSE, type |-> Absent, expires |-> Absent,
     workload |-> Absent, text |-> Absent]

\* the values a structured type field is given
StructuredTypes ==
    { Undefined, Str(media_fast), Str(<<"a","n","y","t","h","i","n","g">>), Str(<< >>), Num(123) }

\* the values an expires field is given
StructuredExpires == { Absent, Num(30), Num(-5), Str(<<"3","0">>) }

\* the values a structured workload field is given
StructuredWorkloads ==
    { Str(ExampleUuid), Str(<<"a","n","y","t","h","i","n","g">>), Str(<< >>), Num(123) }

\* content with a type field (its text is not read), and content without
LaunchMessages ==
    { NoContent } \cup
    { Content(ty, ex, Absent, tx) :
        ty \in StructuredTypes, ex \in StructuredExpires,
        tx \in { Absent, Str(<<"c","o","d","e","r"," ","f","o","r"," ","3","0"," ","m","i","n","u","t","e","s">>) } } \cup
    { Content(Absent, Absent, Absent, tx) :
        tx \in { Absent, Num(7) } \cup { Str(t) : t \in LaunchTexts } }

\* content with a workload field (its text is not read when the field is a
\* string), and content without
StopMessages ==
    { NoContent } \cup
    { Content(Absent, Absent, wl, tx) :
        wl \in StructuredWorkloads,
        tx \in { Absent, Str(<<"w","r","k","_","a","b","1","2"," ","n","o","w">>) } } \cup
    { Content(Absent, Absent, Absent, tx) :
        tx \in { Absent, Num(7) } \cup { Str(t) : t \in StopTexts } }

\* what parseJSONObjectFromText gives for the model's answer: an object, or
\* null when the answer holds no JSON object
LaunchModelCandidates ==
    { NullCandidate, Candidate(Str(media_fast), Num(-5), Absent) } \cup
    { Candidate(ty, ex, Absent) :
        ty \in { Null, Str(media_fast), Num(123) },
        ex \in { Absent, Null, Num(30) } }

StopModelCandidates ==
    { NullCandidate } \cup
    { Candidate(Absent, Absent, wl) :
        wl \in { Absent, Null, Str(ExampleDomain), Str(<<"t","h","e"," ","f","i","r","s","t"," ","o","n","e">>) } }

\* an exception: an Error with a message, or a thrown non-Error value
Exception(msg) == [isError |-> TRUE, message |-> msg]

NonError == [isError |-> FALSE, message |-> ""]

NoException == [isError |-> FALSE, message |-> "none"]

\* what the runtime's collaborators (composePrompt, useModel, parsing of a
\* non-string answer) can raise
CollaboratorErrors ==
    { Exception("model request failed"),
      Exception("upstream answered 502 Bad Gateway"),
      NonError }

\* errorMessage.includes("502") || errorMessage.includes("Bad Gateway")
MentionsBadGateway(msg) == msg \in { "upstream answered 502 Bad Gateway" }

\* runtime.getSetting("COMPUT3AI_API_KEY") and process.env.COMPUT3AI_API_KEY
KeyValues == { Absent, Str(<< >>), Str(<<"k">>) }

\* Date.now() / 1000, floored
ClockBase == 1700000000

Clock == { ClockBase + k : k \in 0..(MaxClock - 1) }

\* what the HTTP exchange of one request can come to
HttpOutcome(k, status, body) == [kind |-> k, status |-> status, body |-> body]

HttpOutcomes ==
    { HttpOutcome("2xx", 200, b) : b \in { "object", "empty" } } \cup
    { HttpOutcome("status", s, b) :
        s \in { 404, BadGateway }, b \in { "message", "empty", "null" } } \cup
    { HttpOutcome("noresponse", 0, "empty"), HttpOutcome("other", 0, "empty") }

\* no HTTP exchange has ended yet
NoOutcome == HttpOutcome("none", 0, "empty")

\* ------------------------------------------------------------------------
\* API client
\* ------------------------------------------------------------------------

\* a || b
Or(a, b) == IF Truthy(a) THEN a ELSE b

\* fromRuntime without the test of the key: a client is made in any case
fromRuntimeUnchecked(settingValue, envValue) == Str(<<"k">>)

\* Comput3ApiClient.fromRuntime: the key it finds, "" when it throws
fromRuntime(settingValue, envValue) ==
    Or(Or(settingValue, envValue), Str(<< >>))

\* the apiKey test of the validate functions
validateKey(settingValue, envValue) == Truthy(Or(settingValue, envValue))

ApiResponse(success, data, error, statusCode) ==
    [threw |-> FALSE, success |-> success, data |-> data, error |-> error,
     statusCode |-> statusCode]

\* handleError raised while reading responseData.message
ApiThrew ==
    [threw |-> TRUE, success |-> FALSE, data |-> "absent", error |-> "",
     statusCode |-> Undefined]

\* Comput3ApiClient.handleError
handleError(o) ==
    IF o.kind = "status"
    THEN IF o.body = "null" THEN ApiThrew
         ELSE ApiResponse(FALSE, "absent",
                          IF o.body = "message" THEN "message of the service"
                          ELSE "Request failed with status code",
                          Num(o.status))
    ELSE IF o.kind = "noresponse"
    THEN ApiResponse(FALSE, "absent", NETWORK_ERROR, Num(0))
    ELSE ApiResponse(FALSE, "absent", UNKNOWN_ERROR, Undefined)

\* Comput3ApiClient.post
post(o) ==
    IF o.kind = "2xx"
    THEN ApiResponse(TRUE, o.body, "", Num(o.status))
    ELSE handleError(o)

\* Comput3ApiClient.get
get(o) ==
    IF o.kind = "2xx"
    THEN ApiResponse(TRUE, o.body, "", Num(o.status))
    ELSE handleError(o)

\* !response.success || !response.data
ResponseFailed(r) == ~r.success \/ r.data # "object"

\* ------------------------------------------------------------------------
\* State of a turn
\* ------------------------------------------------------------------------

VARIABLES
    setting,     \* runtime.getSetting("COMPUT3AI_API_KEY")
    env,         \* process.env.COMPUT3AI_API_KEY
    validated,   \* what validate returned: "none" before it ran
    kind,        \* the handler that runs the turn: "launch", "stop", "none"
    pc,          \* the handler's position
    received,    \* message.content as the caller passed it
    message,     \* message.content now
    params,      \* launchParams / stopParams
    aliased,     \* params is the very object message.content
    events,      \* the calls of the turn, in order
    callbacks,   \* the contents callback was invoked with, in order
    requests,    \* the requests given to the HTTP collaborator, in order
    outcome,     \* how the HTTP exchange of the request ended
    thrown,      \* the exception raised inside the handler's try
    result       \* what the handler returned: "none" while it runs

vars ==
    << setting, env, validated, kind, pc, received, message, params, aliased,
       events, callbacks, requests, outcome, thrown, result >>

\* what a running handler never writes
fixed == << setting, env, validated, kind, received >>

\* the argument of one callback invocation
CallbackContent(success, error, statusCode, text) ==
    [success |-> success, error |-> error, statusCode |-> statusCode,
     text |-> text]

LaunchRequest(type, expires) ==
    [op |-> "launch", type |-> type, expires |-> expires, workload |-> << >>]

StopRequest(workload) ==
    [op |-> "stop", type |-> << >>, expires |-> 0, workload |-> workload]

Unset ==
    [obj |-> "unset", type |-> Absent, expires |-> Absent, workload |-> Absent]

Init ==
    /\ setting \in KeyValues
    /\ env \in KeyValues
    /\ validated = "none"
    /\ kind = "none"
    /\ pc = "idle"
    /\ received = NoContent
    /\ message = NoContent
    /\ params = Unset
    /\ aliased = FALSE
    /\ events = << >>
    /\ callbacks = << >>
    /\ requests = << >>
    /\ outcome = NoOutcome
    /\ thrown = NoException
    /\ result = "none"

\* number of times e was logged
Count(seq, e) == Cardinality({i \in 1..Len(seq) : seq[i] = e})

\* ------------------------------------------------------------------------
\* validate and invocation
\* ------------------------------------------------------------------------

\* launchWorkloadAction.validate / stopWorkloadAction.validate
Validate ==
    /\ pc = "idle"
    /\ validated = "none"
    /\ validated' = IF validateKey(setting, env) THEN "true" ELSE "false"
    /\ UNCHANGED << setting, env, kind, pc, received, message, params, aliased,
                    events, callbacks, requests, outcome, thrown, result >>

\* the runtime calls launchWorkloadAction.handler with a message
InvokeLaunch ==
    /\ pc = "idle"
    /\ \E m \in LaunchMessages :
          /\ received' = m
          /\ message' = m
    /\ kind' = "launch"
    /\ pc' = "create"
    /\ UNCHANGED << setting, env, validated, params, aliased, events,
                    callbacks, requests, outcome, thrown, result >>

\* the runtime calls stopWorkloadAction.handler with a message
InvokeStop ==
    /\ pc = "idle"
    /\ \E m \in StopMessages :
          /\ received' = m
          /\ message' = m
    /\ kind' = "stop"
    /\ pc' = "create"
    /\ UNCHANGED << setting, env, validated, params, aliased, events,
                    callbacks, requests, outcome, thrown, result >>

\* createComput3ApiClient(runtime) inside the handler's try
CreateClient ==
    /\ pc = "create"
    /\ events' = Append(events, "createClient")
    /\ IF Truthy(fromRuntime(setting, env))
       THEN pc' = "extract" /\ thrown' = thrown
       ELSE pc' = "catch" /\ thrown' = Exception(MISSING_API_KEY)
    /\ UNCHANGED << fixed, outcome, message, params, aliased, callbacks, requests, result >>

\* ------------------------------------------------------------------------
\* LAUNCH_WORKLOAD handler
\* ------------------------------------------------------------------------

\* a test of structured content that asks for a string type
HasTypeFieldString(m) == m.present /\ TypeOf(m.type) = "string"

\* message.content && 'type' in message.content
HasTypeField(m) == m.present /\ m.type.t # "absent"

\* message.content && typeof message.content.text === 'string'
HasText(m) == m.present /\ TypeOf(m.text) = "string"

\* the content object read as a launch candidate
AsCandidate(m) == Candidate(m.type, m.expires, m.workload)

\* structured content: launchParams = message.content
LaunchStructured ==
    /\ kind = "launch"
    /\ pc = "extract"
    /\ HasTypeField(message)
    /\ params' = AsCandidate(message)
    /\ aliased' = TRUE
    /\ pc' = "validate"
    /\ UNCHANGED << fixed, outcome, message, events, callbacks, requests, thrown, result >>

\* composePrompt, then the call of runtime.useModel
LaunchUseModel ==
    /\ kind = "launch"
    /\ pc = "extract"
    /\ ~HasTypeField(message)
    /\ \/ /\ events' = events \o << "composePrompt", "useModel" >>
          /\ pc' = "awaitModel"
          /\ thrown' = thrown
       \/ \E e \in CollaboratorErrors :
             /\ events' = Append(events, "composePrompt")
             /\ pc' = "catch"
             /\ thrown' = e
    /\ UNCHANGED << fixed, outcome, message, params, aliased, callbacks, requests, result >>

\* the model answers (or fails) and the answer is parsed
LaunchModelReturns ==
    /\ kind = "launch"
    /\ pc = "awaitModel"
    /\ \/ \E c \in LaunchModelCandidates :
             /\ params' = c
             /\ events' = Append(events, "parse")
             /\ pc' = "parsed"
             /\ thrown' = thrown
       \/ \E e \in CollaboratorErrors :
             /\ params' = params
             /\ events' = events
             /\ pc' = "catch"
             /\ thrown' = e
    /\ UNCHANGED << fixed, outcome, message, aliased, callbacks, requests, result >>

\* the events of the validator applied to a candidate
Checked(v) == "validator:" \o v

\* the guard of direct text extraction without the test of the validator
NeedsFallbackAlways(v, m) == v # "throws" /\ HasText(m)

\* the test that guards direct text extraction after the model:
\* !isLaunchWorkloadContent(launchParams) && message.content &&
\* typeof message.content.text === 'string'
NeedsFallback(v, m) == v = "false" /\ HasText(m)

\* validation that lets every candidate pass
RejectedNever(v) == FALSE

\* the test that ends a turn at validation: !isLaunchWorkloadContent(...),
\* !isStopWorkloadContent(...)
Rejected(v) == v = "false"

\* if the model's candidate is not valid, try direct text extraction
LaunchFallback ==
    /\ kind = "launch"
    /\ pc = "parsed"
    /\ LET v == isLaunchWorkloadContent(params)
           extractedParams == validateLaunchWorkloadFromText(message.text.s)
       IN  CASE v = "throws" ->
                  /\ events' = Append(events, Checked(v))
                  /\ pc' = "catch"
                  /\ thrown' = Exception(NullReadError)
                  /\ params' = params
             [] NeedsFallback(v, message) ->
                  /\ events' = events \o
                        << Checked(v), "validateLaunchWorkloadFromText" >>
                  /\ pc' = "validate"
                  /\ thrown' = thrown
                  /\ params' = IF extractedParams.obj # "null"
                               THEN extractedParams ELSE params
             [] OTHER ->
                  /\ events' = Append(events, Checked(v))
                  /\ pc' = "validate"
                  /\ thrown' = thrown
                  /\ params' = params
    /\ UNCHANGED << fixed, outcome, message, aliased, callbacks, requests, result >>

\* a default fill that leaves the candidate as it is
WithDefaultExpiresNone(p) == p

\* launchParams after the default expiration was set
WithDefaultExpires(p) ==
    IF IsUndefined(p.expires) THEN [p EXCEPT !.expires = Num(DefaultExpires)]
    ELSE p

\* a conversion that adds the minutes to the clock as they are
ExpiresTimestampUnconverted(now, minutes) == now + minutes

\* request.expires: minutes converted to a Unix timestamp
ExpiresTimestamp(now, minutes) == now + minutes * SecondsPerMinute

\* validation, default expiration, request, call of apiClient.launchWorkload
LaunchValidate ==
    /\ kind = "launch"
    /\ pc = "validate"
    /\ LET v == isLaunchWorkloadContent(params)
           p == WithDefaultExpires(params)
       IN  CASE v = "throws" ->
                  /\ events' = Append(events, Checked(v))
                  /\ pc' = "catch"
                  /\ thrown' = Exception(NullReadError)
                  /\ UNCHANGED << params, message, callbacks, requests,
                                  result >>
             [] Rejected(v) ->
                  /\ events' = events \o << Checked(v), "callback" >>
                  /\ callbacks' = Append(callbacks,
                        CallbackContent("false", INVALID_WORKLOAD_TYPE,
                                        Absent, "invalid"))
                  /\ pc' = "done"
                  /\ result' = "false"
                  /\ UNCHANGED << params, message, requests, thrown >>
             [] OTHER ->
                  /\ events' = events \o << Checked(v), "launchWorkload" >>
                  /\ params' = p
                  /\ message' = IF aliased
                                THEN [message EXCEPT !.expires = p.expires]
                                ELSE message
                  /\ \E now \in Clock :
                        requests' = Append(requests,
                            LaunchRequest(p.type.s,
                                          ExpiresTimestamp(now, p.expires.n)))
                  /\ pc' = "awaitHttp"
                  /\ UNCHANGED << callbacks, thrown, result >>
    /\ UNCHANGED << fixed, outcome, aliased >>

\* the text of a failure: the gateway wording for status 502
FailureText(statusCode) ==
    IF statusCode = Num(BadGateway) THEN "gateway" ELSE "error"

\* the HTTP exchange ends; failure or success is reported
LaunchHttpReturns ==
    /\ kind = "launch"
    /\ pc = "awaitHttp"
    /\ \E o \in HttpOutcomes :
          LET response == post(o)
          IN  /\ outcome' = o
              /\ IF response.threw
                 THEN /\ pc' = "catch"
                      /\ thrown' = Exception(NullReadError)
                      /\ UNCHANGED << events, callbacks, result >>
                 ELSE IF ResponseFailed(response)
                 THEN /\ events' = Append(events, "callback")
                      /\ callbacks' = Append(callbacks,
                            CallbackContent("false",
                                IF response.error # "" THEN response.error
                                ELSE "Failed to launch workload",
                                response.statusCode,
                                FailureText(response.statusCode)))
                      /\ pc' = "done"
                      /\ result' = "false"
                      /\ thrown' = thrown
                 ELSE /\ events' = Append(events, "callback")
                      /\ callbacks' = Append(callbacks,
                            CallbackContent("true", "", Absent, "launched"))
                      /\ pc' = "done"
                      /\ result' = "true"
                      /\ thrown' = thrown
    /\ UNCHANGED << fixed, message, params, aliased, requests >>

\* error instanceof Error ? error.message : "Unknown error occurred"
CaughtMessage(e) == IF e.isError THEN e.message ELSE "Unknown error occurred"

\* a catch clause that returns false and does not invoke callback
CatchSilent ==
    /\ pc = "catch"
    /\ pc' = "done"
    /\ result' = "false"
    /\ UNCHANGED << fixed, outcome, message, params, aliased, events, callbacks,
                    requests, thrown >>

\* a catch clause that runs the handler's try again
CatchRetry ==
    /\ pc = "catch"
    /\ pc' = "create"
    /\ UNCHANGED << fixed, outcome, message, params, aliased, events, callbacks,
                    requests, thrown, result >>

\* a catch clause that reports the failure and raises again
CatchRethrows ==
    /\ pc = "catch"
    /\ events' = Append(events, "callback")
    /\ callbacks' = Append(callbacks,
          CallbackContent("false", CaughtMessage(thrown), Absent, "error"))
    /\ pc' = "done"
    /\ result' = "throws"
    /\ UNCHANGED << fixed, outcome, message, params, aliased, requests,
                    thrown >>

\* a catch clause that reports the failure and returns true
CatchReturnsTrue ==
    /\ pc = "catch"
    /\ events' = Append(events, "callback")
    /\ callbacks' = Append(callbacks,
          CallbackContent("false", CaughtMessage(thrown), Absent, "error"))
    /\ pc' = "done"
    /\ result' = "true"
    /\ UNCHANGED << fixed, outcome, message, params, aliased, requests,
                    thrown >>

\* the catch clause of a handler: one failure callback, return false
Catch ==
    /\ pc = "catch"
    /\ events' = Append(events, "callback")
    /\ callbacks' = Append(callbacks,
          CallbackContent("false", CaughtMessage(thrown), Absent,
              IF MentionsBadGateway(CaughtMessage(thrown))
              THEN "gateway" ELSE "error"))
    /\ pc' = "done"
    /\ result' = "false"
    /\ UNCHANGED << fixed, outcome, message, params, aliased, requests,
                    thrown >>

\* the catch clause of launchWorkloadAction.handler
LaunchCatch == kind = "launch" /\ Catch

\* ------------------------------------------------------------------------
\* STOP_WORKLOAD handler
\* ------------------------------------------------------------------------

\* content is an object with a string workload field
HasWorkloadField(m) == m.present /\ TypeOf(m.workload) = "string"

\* content is an object with a string text field
HasTextField(m) == m.present /\ TypeOf(m.text) = "string"

\* structured content: stopParams = {workload, ...message.content}
StopStructured ==
    /\ kind = "stop"
    /\ pc = "extract"
    /\ HasWorkloadField(message)
    /\ params' = AsCandidate(message)
    /\ pc' = "validate"
    /\ UNCHANGED << fixed, outcome, message, aliased, events, callbacks, requests,
                    thrown, result >>

\* direct text extraction first; the model only when it finds nothing
StopDirectExtraction ==
    /\ kind = "stop"
    /\ pc = "extract"
    /\ ~HasWorkloadField(message)
    /\ HasTextField(message)
    /\ LET extractedParams == validateStopWorkloadFromText(message.text.s)
       IN  IF extractedParams.obj # "null"
           THEN /\ events' = Append(events, "validateStopWorkloadFromText")
                /\ params' = extractedParams
                /\ pc' = "validate"
                /\ thrown' = thrown
           ELSE \/ /\ events' = events \o
                        << "validateStopWorkloadFromText", "composePrompt",
                           "useModel" >>
                   /\ params' = params
                   /\ pc' = "awaitModel"
                   /\ thrown' = thrown
                \/ \E e \in CollaboratorErrors :
                      /\ events' = events \o
                           << "validateStopWorkloadFromText", "composePrompt" >>
                      /\ params' = params
                      /\ pc' = "catch"
                      /\ thrown' = e
    /\ UNCHANGED << fixed, outcome, message, aliased, callbacks, requests, result >>

\* neither a string workload field nor a text: the turn fails
StopNoContent ==
    /\ kind = "stop"
    /\ pc = "extract"
    /\ ~HasWorkloadField(message)
    /\ ~HasTextField(message)
    /\ events' = Append(events, "callback")
    /\ callbacks' = Append(callbacks,
          CallbackContent("false",
              "No valid message content to extract workload ID from",
              Absent, "invalid"))
    /\ pc' = "done"
    /\ result' = "false"
    /\ UNCHANGED << fixed, outcome, message, params, aliased, requests, thrown >>

\* the model answers (or fails) and the answer is parsed
StopModelReturns ==
    /\ kind = "stop"
    /\ pc = "awaitModel"
    /\ \/ \E c \in StopModelCandidates :
             /\ params' = c
             /\ events' = Append(events, "parse")
             /\ pc' = "parsed"
             /\ thrown' = thrown
       \/ \E e \in CollaboratorErrors :
             /\ params' = params
             /\ events' = events
             /\ pc' = "catch"
             /\ thrown' = e
    /\ UNCHANGED << fixed, outcome, message, aliased, callbacks, requests, result >>

\* the model's candidate is validated; the turn fails if it is not valid
StopCheckModel ==
    /\ kind = "stop"
    /\ pc = "parsed"
    /\ LET v == isStopWorkloadContent(params)
       IN  CASE v = "throws" ->
                  /\ events' = Append(events, Checked(v))
                  /\ pc' = "catch"
                  /\ thrown' = Exception(NullReadError)
                  /\ UNCHANGED << callbacks, result >>
             [] Rejected(v) ->
                  /\ events' = events \o << Checked(v), "callback" >>
                  /\ callbacks' = Append(callbacks,
                        CallbackContent("false",
                            "Could not extract workload ID", Absent,
                            "invalid"))
                  /\ pc' = "done"
                  /\ result' = "false"
                  /\ thrown' = thrown
             [] OTHER ->
                  /\ events' = Append(events, Checked(v))
                  /\ pc' = "validate"
                  /\ UNCHANGED << callbacks, thrown, result >>
    /\ UNCHANGED << fixed, outcome, message, params, aliased, requests >>

\* a processing callback that carries success: false
ProcessingCallbackWithSuccess ==
    CallbackContent("false", "", Absent, "processing")

\* the callback that announces the stop before the request is sent
ProcessingCallback == CallbackContent("none", "", Absent, "processing")

\* validation, request, processing callback, call of apiClient.stopWorkload
StopValidate ==
    /\ kind = "stop"
    /\ pc = "validate"
    /\ LET v == isStopWorkloadContent(params)
       IN  CASE v = "throws" ->
                  /\ events' = Append(events, Checked(v))
                  /\ pc' = "catch"
                  /\ thrown' = Exception(NullReadError)
                  /\ UNCHANGED << callbacks, requests, result >>
             [] Rejected(v) ->
                  /\ events' = events \o << Checked(v), "callback" >>
                  /\ callbacks' = Append(callbacks,
                        CallbackContent("false", INVALID_WORKLOAD_ID, Absent,
                                        "invalid"))
                  /\ pc' = "done"
                  /\ result' = "false"
                  /\ UNCHANGED << requests, thrown >>
             [] OTHER ->
                  /\ events' = events \o
                        << Checked(v), "callback", "stopWorkload" >>
                  /\ callbacks' = Append(callbacks, ProcessingCallback)
                  /\ requests' = Append(requests, StopRequest(params.workload.s))
                  /\ pc' = "awaitHttp"
                  /\ UNCHANGED << thrown, result >>
    /\ UNCHANGED << fixed, outcome, message, params, aliased >>

\* the HTTP exchange ends; failure or success is reported
StopHttpReturns ==
    /\ kind = "stop"
    /\ pc = "awaitHttp"
    /\ \E o \in HttpOutcomes :
          LET response == post(o)
          IN  /\ outcome' = o
              /\ IF response.threw
                 THEN /\ pc' = "catch"
                      /\ thrown' = Exception(NullReadError)
                      /\ UNCHANGED << events, callbacks, result >>
                 ELSE IF ResponseFailed(response)
                 THEN /\ events' = Append(events, "callback")
                      /\ callbacks' = Append(callbacks,
                            CallbackContent("false",
                                IF response.error # "" THEN response.error
                                ELSE "Failed to stop workload",
                                response.statusCode,
                                FailureText(response.statusCode)))
                      /\ pc' = "done"
                      /\ result' = "false"
                      /\ thrown' = thrown
                 ELSE /\ events' = Append(events, "callback")
                      /\ callbacks' = Append(callbacks,
                            CallbackContent("true", "", Absent, "stopped"))
                      /\ pc' = "done"
                      /\ result' = "true"
                      /\ thrown' = thrown
    /\ UNCHANGED << fixed, message, params, aliased, requests >>

\* the catch clause of stopWorkloadAction.handler
StopCatch == kind = "stop" /\ Catch

\* ------------------------------------------------------------------------
\* LIST_WORKLOADS, GET_WORKLOAD_TYPES, GET_USER_BALANCE, GET_USER_PROFILE
\* ------------------------------------------------------------------------

\* the handlers that ask the service one question
QueryKinds == { "list", "types", "balance", "profile" }

\* the default text of the failure callback of each handler
QueryFailure ==
    [ list |-> "Failed to retrieve workloads",
      types |-> "Failed to retrieve workload types",
      balance |-> "Failed to retrieve user balance",
      profile |-> "Failed to retrieve user profile" ]

\* messages of a query turn; only LIST_WORKLOADS reads the text
QueryMessages ==
    { NoContent } \cup
    { Content(Absent, Absent, Absent, tx) :
        tx \in { Absent, Num(7), Str(<<"s","h","o","w"," ","R","u","n","n","i","n","g"," ","w","o","r","k","l","o","a","d","s">>) } }

\* the runtime calls the handler of a query action with a message
InvokeQuery ==
    /\ pc = "idle"
    /\ \E m \in QueryMessages :
          /\ received' = m
          /\ message' = m
    /\ kind' \in QueryKinds
    /\ pc' = "create"
    /\ UNCHANGED << setting, env, validated, params, aliased, events,
                    callbacks, requests, outcome, thrown, result >>

QueryRequest(op, running) ==
    [op |-> op, type |-> << >>, expires |-> 0, workload |-> << >>,
     running |-> running]

\* message.content?.text as string || ""
MessageText(m) == IF m.present /\ Truthy(m.text) THEN m.text ELSE Str(<< >>)

\* the request is made; LIST_WORKLOADS looks for "running" in the text
\* first, which raises when the text is not a string
QuerySend ==
    /\ kind \in QueryKinds
    /\ pc = "extract"
    /\ IF kind = "list" /\ TypeOf(MessageText(message)) # "string"
       THEN /\ pc' = "catch"
            /\ thrown' = Exception("messageText.toLowerCase is not a function")
            /\ UNCHANGED << events, requests >>
       ELSE /\ events' = Append(events, kind)
            /\ requests' = Append(requests,
                  QueryRequest(kind,
                      kind = "list"
                      /\ HasLit(LowerSeq(MessageText(message).s), <<"r","u","n","n","i","n","g">>)))
            /\ pc' = "awaitHttp"
            /\ thrown' = thrown
    /\ UNCHANGED << fixed, outcome, message, params, aliased, callbacks,
                    result >>

\* the HTTP exchange ends; failure or success is reported
QueryHttpReturns ==
    /\ kind \in QueryKinds
    /\ pc = "awaitHttp"
    /\ \E o \in HttpOutcomes :
          LET response == IF kind = "list" THEN post(o) ELSE get(o)
          IN  /\ outcome' = o
              /\ IF response.threw
                 THEN /\ pc' = "catch"
                      /\ thrown' = Exception(NullReadError)
                      /\ UNCHANGED << events, callbacks, result >>
                 ELSE IF ResponseFailed(response)
                 THEN /\ events' = Append(events, "callback")
                      /\ callbacks' = Append(callbacks,
                            CallbackContent("false",
                                IF response.error # "" THEN response.error
                                ELSE QueryFailure[kind],
                                Absent, "error"))
                      /\ pc' = "done"
                      /\ result' = "false"
                      /\ thrown' = thrown
                 ELSE /\ events' = Append(events, "callback")
                      /\ callbacks' = Append(callbacks,
                            CallbackContent("true", "", Absent, kind))
                      /\ pc' = "done"
                      /\ result' = "true"
                      /\ thrown' = thrown
    /\ UNCHANGED << fixed, message, params, aliased, requests >>

\* the catch clause of the query handlers
QueryCatch == kind \in QueryKinds /\ Catch

\* ------------------------------------------------------------------------
\* Specification
\* ------------------------------------------------------------------------

Next ==
    \/ Validate
    \/ InvokeLaunch
    \/ InvokeStop
    \/ CreateClient
    \/ LaunchStructured
    \/ LaunchUseModel
    \/ LaunchModelReturns
    \/ LaunchFallback
    \/ LaunchValidate
    \/ LaunchHttpReturns
    \/ LaunchCatch
    \/ StopStructured
    \/ StopDirectExtraction
    \/ StopNoContent
    \/ StopModelReturns
    \/ StopCheckModel
    \/ StopValidate
    \/ StopHttpReturns
    \/ StopCatch
    \/ InvokeQuery
    \/ QuerySend
    \/ QueryHttpReturns
    \/ QueryCatch

Spec == Init /\ [][Next]_vars

\* ------------------------------------------------------------------------
\* The extractors on their own
\* ------------------------------------------------------------------------

\* texts that set the patterns and keyword groups against one another
ExtractExampleTexts ==
    { <<"h","o","u","r","s">>,
      <<"l","a","r","g","e"," ","a","n","d"," ","f","a","s","t">>,
      <<"l","a","r","g","e"," ","o","l","l","a","m","a"," ","f","a","s","t">>,
      <<"o","l","l","a","m","a"," ","c","o","d","e","r"," ","a","n","d"," ","f","a","s","t"," ","m","e","d","i","a">>,
      <<"o","l","l","a","m","a"," ","c","o","d","e","r">>,
      <<"l","l","a","m","a"," ","c","o","d","e","r">>,
      <<"b","i","g"," ","v","i","d","e","o">>,
      <<"q","u","i","c","k"," ","b","i","g">>,
      <<"v","i","d","e","o"," ","f","o","r"," ","a"," ","d","e","v","e","l","o","p","e","r">>,
      <<"q","u","i","c","k">>,
      <<"O","L","L","A","M","A","_","W","E","B","U","I",":","L","A","R","G","E"," ","p","l","e","a","s","e">>,
      <<"E","x","p","i","r","e","s"," ","I","n"," ","5"," ","M","i","n","u","t","e","s">>,
      <<"W","o","r","k","l","o","a","d",":"," ","m","y","_","j","o","b","-","1">> }

ExtractTexts == LaunchTexts \cup StopTexts \cup ExtractExampleTexts

ExtractorNames ==
    { "extractWorkloadType", "extractExpirationTime", "extractWorkloadId" }

\* the call name(text), its value in the field the extractor is for
RunExtractor(name, text) ==
    CASE name = "extractWorkloadType" ->
           Candidate(extractWorkloadType(text), Absent, Absent)
      [] name = "extractExpirationTime" ->
           Candidate(Absent, Num(extractExpirationTime(text, DefaultMinutes)),
                     Absent)
      [] name = "extractWorkloadId" ->
           Candidate(Absent, Absent, extractWorkloadId(text))

\* the value an extractor returned
Returned(name, c) ==
    CASE name = "extractWorkloadType" -> c.type
      [] name = "extractExpirationTime" -> c.expires
      [] name = "extractWorkloadId" -> c.workload

\* String(n) of a natural number
RECURSIVE ToDigits(_)
ToDigits(n) ==
    IF n < 10 THEN << DigitChars[n + 1] >>
    ELSE ToDigits(n \div 10) \o << DigitChars[(n % 10) + 1] >>

\* the text of a returned value in a string concatenation
AsText(v) == IF v.t = "number" THEN ToDigits(v.n) ELSE v.s

ExtractInit ==
    /\ setting = Absent
    /\ env = Absent
    /\ validated = "none"
    /\ kind = "none"
    /\ pc = "text"
    /\ \E text \in ExtractTexts :
          /\ received = Content(Absent, Absent, Absent, Str(text))
          /\ message = Content(Absent, Absent, Absent, Str(text))
    /\ params = Unset
    /\ aliased = FALSE
    /\ events = << >>
    /\ callbacks = << >>
    /\ requests = << >>
    /\ outcome = NoOutcome
    /\ thrown = NoException
    /\ result = "none"

\* an extractor is called on the text
ApplyExtractor ==
    /\ pc = "text"
    /\ \E name \in ExtractorNames :
          /\ kind' = name
          /\ params' = RunExtractor(name, message.text.s)
          /\ events' = Append(events, name)
    /\ pc' = "extracted"
    /\ UNCHANGED << setting, env, validated, received, message, aliased,
                    callbacks, requests, outcome, thrown, result >>

\* the extractor is called again on its value followed by the text
ReapplyExtractor ==
    /\ pc = "extracted"
    /\ Returned(kind, params).t # "null"
    /\ LET again == AsText(Returned(kind, params)) \o received.text.s
       IN  /\ message' = [message EXCEPT !.text = Str(again)]
           /\ params' = RunExtractor(kind, again)
    /\ events' = Append(events, kind)
    /\ pc' = "reapplied"
    /\ UNCHANGED << setting, env, validated, kind, received, aliased,
                    callbacks, requests, outcome, thrown, result >>

ExtractNext == ApplyExtractor \/ ReapplyExtractor

ExtractSpec == ExtractInit /\ [][ExtractNext]_vars


\* ------------------------------------------------------------------------
\* Properties
\* ------------------------------------------------------------------------

\* the callbacks that report an outcome: content.success is on them
OutcomeCallbacks == {i \in 1..Len(callbacks) : callbacks[i].success # "none"}

\* the model's answer went through its validator with result v
ModelAnswerChecked(v) ==
    \E i \in 1..(Len(events) - 1) :
        events[i] = "parse" /\ events[i + 1] \in v

\* C1, as stated: every run of the STOP_WORKLOAD handler invokes callback
\* exactly once before it returns, with success = false when the turn fails
\* and success = true when the workload was stopped.
StopCallbackExactlyOnce ==
    (kind = "stop" /\ result # "none") =>
        /\ Len(callbacks) = 1
        /\ callbacks[1].success = result

\* C1, amended: every run of the STOP_WORKLOAD handler invokes callback
\* exactly once with a success field, as its last invocation before it
\* returns: false when the turn fails, true when the stop is reported (which
\* needs a 2xx answer to the one request sent).  A run that reaches the
\* stopWorkload call makes one more invocation, before the request, with the
\* processing content that has no success field.
StopOneOutcomeCallback ==
    kind = "stop" =>
        /\ result = "none" => OutcomeCallbacks = {}
        /\ Len(callbacks) <= 2
        /\ result # "none" =>
              /\ OutcomeCallbacks = {Len(callbacks)}
              /\ callbacks[Len(callbacks)].success = result
              /\ Len(callbacks) = 1 + Len(requests)
              /\ Len(requests) = 1 =>
                    /\ callbacks[1].text = "processing"
                    /\ Count(events, "callback") = 2
                    /\ \E i \in 1..(Len(events) - 1) :
                          /\ events[i] = "callback"
                          /\ events[i + 1] = "stopWorkload"
              /\ result = "true" => (Len(requests) = 1 /\ outcome.kind = "2xx")

\* a stop turn that reached the HTTP call and reported the stop
StopReportedWitness ==
    kind = "stop" /\ result = "true" /\ Len(callbacks) = 2

\* C2: every run of the LAUNCH_WORKLOAD handler invokes callback exactly
\* once, right before it returns: with success = false when the turn fails,
\* with success = true when the workload was launched (the one request was
\* answered 2xx with the launch data).
LaunchCallbackExactlyOnce ==
    kind = "launch" =>
        /\ result = "none" => callbacks = << >>
        /\ result # "none" =>
              /\ Len(callbacks) = 1
              /\ Count(events, "callback") = 1
              /\ events[Len(events)] = "callback"
              /\ callbacks[1].success = result
              /\ result \in {"true", "false"}
              /\ result = "true" <=>
                    /\ Len(requests) = 1
                    /\ outcome.kind = "2xx"
                    /\ outcome.body = "object"

\* a launch turn that launched, and one callback
LaunchReportedWitness ==
    kind = "launch" /\ result = "true" /\ Len(callbacks) = 1

\* C3: launch, no type field, a text a type can be extracted from, and a
\* model answer that is not a valid candidate (null included): the turn sends
\* launchWorkload with the extracted type and now + 60 * extracted minutes.
LaunchFallbackRecovers ==
    ( /\ kind = "launch"
      /\ result # "none"
      /\ ~HasTypeField(received)
      /\ HasText(received)
      /\ ModelAnswerChecked({"validator:false", "validator:throws"})
      /\ Truthy(extractWorkloadType(received.text.s)) ) =>
        /\ Len(requests) = 1
        /\ requests[1].type = extractWorkloadType(received.text.s).s
        /\ \E now \in Clock :
              requests[1].expires =
                  now + 60 * extractExpirationTime(received.text.s, 10)

\* C4: the validators return a boolean for every candidate the handlers
\* pass to them, the parse result of an answer without JSON object included.
ValidatorsNeverRaise ==
    /\ (kind = "launch" /\ pc \in {"parsed", "validate"}) =>
          isLaunchWorkloadContent(params) \in {"true", "false"}
    /\ (kind = "stop" /\ pc \in {"parsed", "validate"}) =>
          isStopWorkloadContent(params) \in {"true", "false"}

\* the validator of the running handler applied to the candidate
CandidateValid ==
    IF kind = "launch" THEN isLaunchWorkloadContent(params) = "true"
    ELSE kind = "stop" /\ isStopWorkloadContent(params) = "true"

\* C5: in the launch and the stop handler a request is sent only if the
\* candidate it is built from passed its
\* validator in the turn; a turn without valid candidate fails and sends
\* nothing.
RequestOnlyForValidCandidate ==
    kind \in {"launch", "stop"} =>
        /\ requests # << >> =>
              /\ CandidateValid
              /\ Count(events, "validator:true") >= 1
              /\ kind = "launch" =>
                    /\ requests[1].op = "launch"
                    /\ requests[1].type = params.type.s
                    /\ \E i \in 2..Len(events) :
                          /\ events[i] = "launchWorkload"
                          /\ events[i - 1] = "validator:true"
              /\ kind = "stop" =>
                    /\ requests[1].op = "stop"
                    /\ requests[1].workload = params.workload.s
                    /\ \E i \in 3..Len(events) :
                          /\ events[i] = "stopWorkload"
                          /\ events[i - 2] = "validator:true"
        /\ (result # "none" /\ ~CandidateValid) =>
              /\ requests = << >>
              /\ Count(events, "launchWorkload") = 0
              /\ Count(events, "stopWorkload") = 0
              /\ result = "false"
              /\ callbacks[Len(callbacks)].success = "false"

\* the model's candidate was valid and the stop request was sent
RequestSentWitness ==
    /\ kind = "stop"
    /\ Len(requests) = 1
    /\ Count(events, "useModel") = 1

\* C6, on states: in a launch turn the direct text extraction runs only
\* right after the model's parsed answer failed isLaunchWorkloadContent, so
\* after runtime.useModel; with a valid answer it never runs, and the request
\* carries the candidate's type.
LaunchModelFirstState ==
    kind = "launch" =>
        /\ \A i \in 1..Len(events) :
              events[i] = "validateLaunchWorkloadFromText" =>
                  /\ i >= 4
                  /\ events[i - 1] = "validator:false"
                  /\ events[i - 2] = "parse"
                  /\ events[i - 3] = "useModel"
        /\ ~HasTypeField(received) =>
              \A i \in 1..Len(events) :
                  events[i] \in {"parse", "validator:true", "validator:false",
                                 "validator:throws", "validateLaunchWorkloadFromText"} =>
                      \E j \in 1..(i - 1) : events[j] = "useModel"
        /\ ModelAnswerChecked({"validator:true"}) =>
              /\ Count(events, "validateLaunchWorkloadFromText") = 0
              /\ requests # << >> => requests[1].type = params.type.s

\* C6, on steps: a valid answer of the model stays the candidate, apart from
\* the default of expires
LaunchKeepsValidAnswer ==
    ( /\ kind = "launch"
      /\ Count(events, "useModel") = 1
      /\ pc \in {"parsed", "validate", "awaitHttp"}
      /\ isLaunchWorkloadContent(params) = "true"
      /\ Count(events, "validateLaunchWorkloadFromText") = 0 ) =>
        /\ params'.type = params.type
        /\ params'.expires \in {params.expires, Num(DefaultExpires)}
        /\ ~IsUndefined(params.expires) => params'.expires = params.expires
        /\ Count(events', "validateLaunchWorkloadFromText") = 0

\* C6: for Launch without a type field the model is asked first, the direct
\* text extraction runs only after the model's parsed answer failed the
\* validator, and a valid answer of the model is the candidate that is used.
LaunchModelFirst == []LaunchModelFirstState /\ [][LaunchKeepsValidAnswer]_vars

\* the model's answer was valid and became the request
ModelAnswerUsedWitness ==
    /\ kind = "launch"
    /\ Count(events, "useModel") = 1
    /\ Count(events, "validateLaunchWorkloadFromText") = 0
    /\ Len(requests) = 1

\* C7: in a stop turn runtime.useModel is invoked only after the direct
\* text extraction ran on a text string of a message without string workload
\* field and extractWorkloadId found nothing in it.
StopDeterministicFirst ==
    kind = "stop" =>
        /\ \A i \in 1..Len(events) :
              events[i] = "useModel" =>
                  /\ i >= 3
                  /\ events[i - 2] = "validateStopWorkloadFromText"
                  /\ HasTextField(received)
                  /\ ~HasWorkloadField(received)
                  /\ extractWorkloadId(received.text.s) = Null
        /\ Count(events, "useModel") >= 1 => Count(events, "validateStopWorkloadFromText") = 1
        /\ (~HasTextField(received) \/ HasWorkloadField(received)) =>
              (Count(events, "useModel") = 0 /\ Count(events, "validateStopWorkloadFromText") = 0)
        /\ (Count(events, "validateStopWorkloadFromText") = 1 /\ Count(events, "composePrompt") = 0) =>
              /\ pc \in {"validate", "awaitHttp", "catch", "done"}
              /\ Truthy(extractWorkloadId(received.text.s))
              /\ params.workload = extractWorkloadId(received.text.s)

\* the direct extraction found nothing and the model was asked
StopModelAskedWitness ==
    /\ kind = "stop"
    /\ pc = "awaitModel"
    /\ events[Len(events)] = "useModel"
    /\ Count(events, "validateStopWorkloadFromText") = 1

\* C8: in one run the model is invoked at most once, the direct text
\* extraction runs at most once, and at most one request is sent.
AtMostOnceEach ==
    /\ Count(events, "useModel") <= 1
    /\ Count(events, "validateLaunchWorkloadFromText") + Count(events, "validateStopWorkloadFromText") <= 1
    /\ Count(events, "launchWorkload") + Count(events, "stopWorkload") <= 1
    /\ Len(requests) <= 1

\* a run in which all three were used once
AllPathsOnceWitness ==
    /\ Count(events, "useModel") = 1
    /\ Count(events, "validateLaunchWorkloadFromText") + Count(events, "validateStopWorkloadFromText") = 1
    /\ Len(requests) = 1
    /\ result # "none"

\* C9: without API key in the setting and in the environment the turn fails
\* before any network call: no model call, no request, no exception to the
\* caller, one success:false callback; validate returns false.
MissingKeyFailsEarly ==
    ~Truthy(Or(setting, env)) =>
        /\ validated \in {"none", "false"}
        /\ Count(events, "useModel") = 0
        /\ Count(events, "composePrompt") = 0
        /\ requests = << >>
        /\ outcome = NoOutcome
        /\ result \in {"none", "false"}
        /\ pc \in {"idle", "create", "catch", "done"}
        /\ pc = "done" =>
              /\ result = "false"
              /\ Len(callbacks) = 1
              /\ callbacks[1].success = "false"
              /\ callbacks[1].error = MISSING_API_KEY

\* a turn without key that validate refused and the handler ended
MissingKeyWitness ==
    /\ ~Truthy(Or(setting, env))
    /\ validated = "false"
    /\ pc = "done"
    /\ kind = "launch"

\* C10: an exception raised while a launch or stop turn is handled is caught
\* in the handler and becomes a failure response: the handler returns false
\* and nothing reaches its caller.
ExceptionsBecomeFailures ==
    /\ result \in {"none", "true", "false"}
    /\ pc = "catch" => (thrown # NoException /\ result = "none")
    /\ thrown # NoException =>
          /\ pc \in {"catch", "done"}
          /\ pc = "done" =>
                /\ result = "false"
                /\ callbacks[Len(callbacks)].success = "false"
                /\ callbacks[Len(callbacks)].error = CaughtMessage(thrown)

\* the HTTP call of a stop turn raised and the turn ended
HttpExceptionCaughtWitness ==
    /\ kind = "stop"
    /\ pc = "done"
    /\ Len(requests) = 1
    /\ thrown = Exception(NullReadError)

LaunchExpiresNotInPast ==
    (kind = "launch" /\ requests # << >>) =>
        /\ params.expires.n >= 0
        /\ \E now \in Clock :
              /\ requests[1].expires = ExpiresTimestamp(now, params.expires.n)
              /\ requests[1].expires >= now

\* C13: the conversion of minutes to a timestamp is made once, when the
\* request is built: request.expires = now + 60 * candidate minutes, and the
\* candidate, the extractor's result and the message keep minutes.
LaunchConversionOnce ==
    kind = "launch" =>
        /\ Len(requests) <= 1
        /\ Count(events, "launchWorkload") = Len(requests)
        /\ requests # << >> =>
              \E now \in Clock :
                  requests[1].expires = now + 60 * params.expires.n
        /\ TypeOf(params.expires) = "number" => params.expires.n < ClockBase
        /\ TypeOf(message.expires) = "number" => message.expires.n < ClockBase
        /\ ( /\ Count(events, "validateLaunchWorkloadFromText") = 1
             /\ isLaunchWorkloadContent(params) = "true" ) =>
              params.expires =
                  Num(extractExpirationTime(received.text.s, DefaultMinutes))

\* the direct extraction gave 30 minutes and the request carries now + 1800
ConvertedAtRequestWitness ==
    /\ kind = "launch"
    /\ Count(events, "validateLaunchWorkloadFromText") = 1
    /\ params.expires = Num(30)
    /\ Len(requests) = 1
    /\ requests[1].expires - 1800 \in Clock

\* C14, the step that builds the request: a valid launch candidate without
\* expires gets 10 minutes and the request now + 600, a candidate with a
\* number keeps it; the stop handler changes nothing on its candidate.
DefaultFillStep ==
    /\ (kind = "launch" /\ pc = "validate" /\ pc' = "awaitHttp") =>
          /\ params'.type = params.type
          /\ IF IsUndefined(params.expires)
             THEN /\ params'.expires = Num(10)
                  /\ \E now \in Clock :
                        requests' = << LaunchRequest(params.type.s, now + 600) >>
             ELSE /\ params'.expires = params.expires
                  /\ \E now \in Clock :
                        requests' = << LaunchRequest(params.type.s,
                                           now + 60 * params.expires.n) >>
    /\ (kind = "stop" /\ pc = "validate") =>
          /\ params' = params
          /\ pc' = "awaitHttp" =>
                requests' = << StopRequest(params.workload.s) >>

\* C14: a launch candidate that passes validation without expires is
\* default-filled to 10 minutes (request expires = now + 600), one with a
\* numeric expires is left as given, and the stop flow applies no default.
LaunchDefaultExpires == [][DefaultFillStep]_vars

\* structured content without expires was launched with now + 600
DefaultFilledWitness ==
    /\ kind = "launch"
    /\ HasTypeField(received)
    /\ IsUndefined(received.expires)
    /\ params.expires = Num(10)
    /\ Len(requests) = 1
    /\ requests[1].expires - 600 \in Clock

\* C15: isLaunchWorkloadContent(candidate) is true exactly when type is a
\* non-empty string and expires is undefined or a number; type is not looked
\* up among the known types, so {type: 123} is rejected and
\* {type: "anything", expires: <number>} is accepted.
LaunchValidatorStructural ==
    (kind = "launch" /\ pc \in {"parsed", "validate", "awaitHttp"}) =>
        /\ isLaunchWorkloadContent(params) = "true" <=>
              /\ params.type.t = "string"
              /\ params.type.s # << >>
              /\ params.expires.t \in {"absent", "undefined", "number"}
        /\ params.type = Num(123) => isLaunchWorkloadContent(params) = "false"
        /\ (params.type = Str(<<"a","n","y","t","h","i","n","g">>) /\ params.expires.t = "number") =>
              isLaunchWorkloadContent(params) = "true"
        /\ pc = "awaitHttp" => isLaunchWorkloadContent(params) = "true"

\* a type outside the known set passed validation and was requested
UnknownTypeAcceptedWitness ==
    /\ kind = "launch"
    /\ params.type = Str(<<"a","n","y","t","h","i","n","g">>)
    /\ params.expires = Num(30)
    /\ Len(requests) = 1
    /\ requests[1].type = <<"a","n","y","t","h","i","n","g">>

\* C16: isStopWorkloadContent(candidate) is true exactly when workload is a
\* non-empty string.
StopValidatorStructural ==
    (kind = "stop" /\ pc \in {"parsed", "validate", "awaitHttp"}) =>
        /\ isStopWorkloadContent(params) = "true" <=>
              (params.workload.t = "string" /\ params.workload.s # << >>)
        /\ pc = "awaitHttp" => isStopWorkloadContent(params) = "true"

\* an empty workload string was rejected at validation
EmptyWorkloadRejectedWitness ==
    /\ kind = "stop"
    /\ params.workload = Str(<< >>)
    /\ pc = "done"
    /\ result = "false"
    /\ callbacks[Len(callbacks)].error = INVALID_WORKLOAD_ID

\* the direct text extraction of the launch handler ran in this turn
LaunchExtractionRan ==
    kind = "launch" /\ Count(events, "validateLaunchWorkloadFromText") = 1

\* C17: for each of the five known workload types, extractWorkloadType
\* applied to the text that is exactly the type's tag returns that type.
ExactTagExtracted ==
    ( /\ LaunchExtractionRan
      /\ \E k \in 1..Len(WorkloadTypes) : received.text.s = WorkloadTypes[k] ) =>
        /\ extractWorkloadType(received.text.s) = received.text
        /\ params.type = received.text

\* the exact tag llama_webui:coder was extracted and requested
ExactTagWitness ==
    /\ LaunchExtractionRan
    /\ received.text = Str(llama_webui_coder)
    /\ Len(requests) = 1
    /\ requests[1].type = llama_webui_coder

\* C18: extractWorkloadType returns none for a text that matches no pattern
\* of the library and no heuristic keyword, and what it returns otherwise is
\* one of the five known workload types.
ExtractedTypeKnown ==
    LaunchExtractionRan =>
        LET t == LowerSeq(received.text.s)
            r == extractWorkloadType(received.text.s)
            matched ==
                \/ \E k \in 1..Len(WorkloadTypes) : TypeMatches(t, k)
                \/ MatchesAny(t, CodingKeywords \cup MediaKeywords
                                   \cup SizeKeywords \cup SpeedKeywords)
        IN  /\ ~matched =>
                  /\ r = Null
                  /\ isLaunchWorkloadContent(params) = "false"
                  /\ requests = << >>
            /\ r # Null =>
                  /\ matched
                  /\ \E k \in 1..Len(WorkloadTypes) : r = Str(WorkloadTypes[k])
                  /\ params.type = r

\* a text without type: the extraction found none and the turn failed
NoTypeFoundWitness ==
    /\ LaunchExtractionRan
    /\ received.text = Str(<<"f","o","r"," ","3","0"," ","m","i","n","u","t","e","s">>)
    /\ result = "false"
    /\ callbacks[Len(callbacks)].error = INVALID_WORKLOAD_TYPE

\* C19: extractExpirationTime returns the integer captured by the first of
\* the five patterns (expires in N minutes, for N minutes, N minutes expir,
\* N minutes, N hours) that matches, times 60 only for the hours pattern, and
\* the default when none matches: 45 for "expires in 45 minutes", 120 for
\* "for 2 hours", the minutes alone when minutes and hours both occur.
ExpirationFirstPatternWins ==
    (LaunchExtractionRan /\ isLaunchWorkloadContent(params) = "true") =>
        LET t == LowerSeq(received.text.s)
            hit == {k \in 1..5 : ExpirationMatches(t, k) # {}}
            minutes == params.expires.n
        IN  /\ params.expires.t = "number"
            /\ minutes = extractExpirationTime(received.text.s, DefaultMinutes)
            /\ hit = {} => minutes = 10
            /\ hit # {} =>
                  \E k \in hit :
                      /\ \A j \in hit : k <= j
                      /\ minutes = parseInt(ExpirationCapture(t, k))
                                     * (IF k = 5 THEN 60 ELSE 1)
            /\ received.text.s = <<"c","o","d","e","r"," ","e","x","p","i","r","e","s"," ","i","n"," ","4","5"," ","m","i","n","u","t","e","s">> => minutes = 45
            /\ received.text.s = <<"c","o","d","e","r"," ","f","o","r"," ","2"," ","h","o","u","r","s">> => minutes = 120
            /\ received.text.s = <<"c","o","d","e","r"," ","f","o","r"," ","2"," ","h","o","u","r","s"," ","a","n","d"," ","1","5"," ","m","i","n">> => minutes = 15
            /\ received.text.s = <<"c","o","d","e","r">> => minutes = 10

\* hours and minutes both occur and the request carries the minutes
MinutesBeforeHoursWitness ==
    /\ LaunchExtractionRan
    /\ received.text = Str(<<"c","o","d","e","r"," ","f","o","r"," ","2"," ","h","o","u","r","s"," ","a","n","d"," ","1","5"," ","m","i","n">>)
    /\ params.expires = Num(15)
    /\ Len(requests) = 1
    /\ requests[1].expires - 900 \in Clock

\* the characters of id stand somewhere in text
OccursIn(text, id) == \E i \in 1..Len(text) : LitAt(text, i, id)

\* C20: extractWorkloadId tries its forms in a fixed priority, wherever they
\* stand in the text: a UUID is returned verbatim; otherwise a token ending
\* in .comput3.ai, verbatim; otherwise a wrk_ token with its prefix, then the
\* token after "workload", then four hyphen-joined alphabetic words;
\* otherwise none.
WorkloadIdPriority ==
    (kind = "stop" /\ Count(events, "validateStopWorkloadFromText") = 1) =>
        LET text == received.text.s
            t == LowerSeq(text)
            P == 1..Len(t)
            r == extractWorkloadId(text)
            id == LowerSeq(r.s)
        IN  /\ IF \E i \in P : UuidAt(t, i)
               THEN /\ Len(id) = 36 /\ UuidAt(id, 1)
                    /\ OccursIn(text, r.s)
               ELSE IF \E i \in P : DomainAt(t, i)
               THEN /\ LitAt(id, Len(id) - 10, <<".","c","o","m","p","u","t","3",".","a","i">>)
                    /\ RunEnd(id, 1, AlnumHyphenSet) = Len(id) - 10
                    /\ OccursIn(text, r.s)
               ELSE IF \E i \in P : WrkAt(t, i)
               THEN /\ LitAt(r.s, 1, <<"w","r","k","_">>)
                    /\ Len(id) > 4
                    /\ RunEnd(id, 5, AlnumSet) = Len(id) + 1
                    /\ OccursIn(t, id)
               ELSE IF \E i \in P : WorkloadTokenAt(t, i)
               THEN /\ Len(id) > 0
                    /\ RunEnd(id, 1, AlnumHyphenUnderscoreSet) = Len(id) + 1
                    /\ OccursIn(text, r.s)
               ELSE IF \E i \in P : FourWordsAt(t, i)
               THEN /\ FourWordsAt(id, 1)
                    /\ RunEnd(id, ThreeGroupsEnd(id, 1), AlphaSet) = Len(id) + 1
                    /\ OccursIn(text, r.s)
               ELSE r = Null
            /\ text = ExampleUuid => r = Str(ExampleUuid)
            /\ text = ExampleDomain => r = Str(ExampleDomain)
            /\ text = <<"n","o"," ","i","d"," ","h","e","r","e">> => r = Null
            /\ text = <<"w","r","k","_","a","b","1","2"," ">> \o ExampleUuid => r = Str(ExampleUuid)
            /\ text = <<"w","r","k","_","a","b","1","2"," ">> \o ExampleDomain => r = Str(ExampleDomain)
            /\ text = <<"w","o","r","k","l","o","a","d"," ","w","r","k","_","a","b","1","2">> => r = Str(<<"w","r","k","_","a","b","1","2">>)
            /\ text = <<"s","t","o","p"," ","f","i","r","m","l","y","-","w","i","d","e","l","y","-","p","r","o","u","d","-","g","p","u">> =>
                  r = Str(<<"f","i","r","m","l","y","-","w","i","d","e","l","y","-","p","r","o","u","d","-","g","p","u">>)
            /\ Count(events, "composePrompt") = 0 =>
                  (r # Null /\ params.workload = r)
            /\ Count(events, "composePrompt") = 1 => r = Null

\* a UUID that stands after a wrk_ token was extracted and requested
UuidAfterWrkWitness ==
    /\ kind = "stop"
    /\ received.text = Str(<<"w","r","k","_","a","b","1","2"," ">> \o ExampleUuid)
    /\ Count(events, "validateStopWorkloadFromText") = 1
    /\ Len(requests) = 1
    /\ requests[1].workload = ExampleUuid

\* the extractor that ran in a state of the extractors' specification
ExtractorRan(name) == kind = name /\ pc \in {"extracted", "reapplied"}

\* C21: the three extractors are total: on every text each returns a value
\* of its result type, and on the empty text they return none, the default
\* of 10 minutes, and none.
ExtractorsTotal ==
    /\ ExtractorRan("extractWorkloadType") =>
          /\ \/ params.type = Null
             \/ \E k \in 1..Len(WorkloadTypes) :
                   params.type = Str(WorkloadTypes[k])
          /\ message.text.s = << >> => params.type = Null
    /\ ExtractorRan("extractExpirationTime") =>
          /\ params.expires.t = "number"
          /\ params.expires.n \in Nat
          /\ message.text.s = << >> => params.expires = Num(10)
    /\ ExtractorRan("extractWorkloadId") =>
          /\ \/ params.workload = Null
             \/ params.workload.t = "string" /\ Len(params.workload.s) > 0
          /\ message.text.s = << >> => params.workload = Null

\* extractExpirationTime was called on the empty text and gave the default
EmptyTextDefaultWitness ==
    /\ ExtractorRan("extractExpirationTime")
    /\ received.text = Str(<< >>)
    /\ params.expires = Num(DefaultMinutes)

\* C22: each extractor is idempotent: where it yields a value v on a text,
\* it yields v again on v followed by the text.
ExtractorsIdempotent ==
    pc = "reapplied" =>
        Returned(kind, params) =
            Returned(kind, RunExtractor(kind, received.text.s))

\* the calls that extract a candidate from text
ExtractionCalls ==
    { "composePrompt", "useModel", "parse", "validateLaunchWorkloadFromText",
      "validateStopWorkloadFromText" }

\* C23: when the message carries the pre-typed field (a type field for
\* launch, a string workload field for stop) the content itself is the
\* candidate: neither the model nor a deterministic extractor is invoked,
\* the candidate goes straight to validation, and a candidate that fails
\* validation fails the turn without any other extraction.
StructuredInputDirect ==
    LET structured ==
            \/ kind = "launch" /\ received.present /\ received.type.t # "absent"
            \/ /\ kind = "stop" /\ received.present
               /\ TypeOf(received.workload) = "string"
        candidate ==
            Candidate(received.type, received.expires, received.workload)
        v == IF kind = "launch" THEN isLaunchWorkloadContent(candidate)
             ELSE isStopWorkloadContent(candidate)
        ran == {x \in {"true", "false", "throws"} :
                  Count(events, Checked(x)) > 0}
    IN  structured =>
          /\ \A e \in ExtractionCalls : Count(events, e) = 0
          /\ pc = "validate" =>
                params = candidate /\ events = << "createClient" >>
          /\ \A x \in {"true", "false", "throws"} :
                Count(events, Checked(x)) = IF ran = {x} THEN 1 ELSE 0
          /\ ran \subseteq {v}
          /\ (pc = "awaitHttp" \/ (pc = "done" /\ thrown = NoException)) =>
                ran = {v}
          /\ ran = {"false"} =>
                /\ pc = "done"
                /\ result = "false"
                /\ requests = << >>
                /\ Len(callbacks) = 1
                /\ callbacks[1].success = "false"
          /\ ran = {"true"} => Len(requests) = 1

\* a structured launch message whose type is not a string failed at
\* validation, and nothing was asked of the model or the extractors
StructuredRejectedWitness ==
    /\ kind = "launch"
    /\ received.type = Num(123)
    /\ events = << "createClient", Checked("false"), "callback" >>
    /\ result = "false"

\* the type returned on a text is that of k
ReturnedType(k) == params.type = Str(WorkloadTypes[k])

\* C24: when patterns of several types match a text, extractWorkloadType
\* returns the type that is first in the declared order, wherever the
\* matches stand in the text and whichever pattern of a type matched.
DeclaredOrderWins ==
    ExtractorRan("extractWorkloadType") =>
        LET text == message.text.s
            t == LowerSeq(text)
        IN  /\ \A k \in 1..Len(WorkloadTypes) :
                  TypeMatches(t, k) =>
                      \E j \in 1..k :
                          /\ TypeMatches(t, j)
                          /\ ReturnedType(j)
                          /\ \A i \in 1..(j - 1) : ~TypeMatches(t, i)
            /\ text = <<"l","a","r","g","e"," ","o","l","l","a","m","a"," ","f","a","s","t">> => ReturnedType(3)
            /\ text = <<"o","l","l","a","m","a"," ","c","o","d","e","r"," ","a","n","d"," ","f","a","s","t"," ","m","e","d","i","a">> => ReturnedType(1)
            /\ text = <<"o","l","l","a","m","a"," ","c","o","d","e","r">> => ReturnedType(2)
            /\ text = <<"l","l","a","m","a"," ","c","o","d","e","r">> => ReturnedType(5)

\* a text in which the pattern of a later type stands first
LaterTypeFirstInTextWitness ==
    /\ ExtractorRan("extractWorkloadType")
    /\ message.text = Str(<<"l","a","r","g","e"," ","o","l","l","a","m","a"," ","f","a","s","t">>)
    /\ TypeMatches(message.text.s, 3)
    /\ TypeMatches(message.text.s, 4)
    /\ params.type = Str(ollama_webui_fast)

\* C25: the keyword rules are consulted only when no declared pattern
\* matches, in the priority coding, media, size, speed: the highest group
\* present in the text gives the type.
HeuristicPriority ==
    ExtractorRan("extractWorkloadType") =>
        LET text == message.text.s
            t == LowerSeq(text)
            coding == \E w \in CodingKeywords : HasLit(t, w)
            media == \E w \in MediaKeywords : HasLit(t, w)
            size == \E w \in SizeKeywords : HasLit(t, w)
            speed == \E w \in SpeedKeywords : HasLit(t, w)
        IN  IF \E k \in 1..Len(WorkloadTypes) : TypeMatches(t, k)
            THEN \E k \in 1..Len(WorkloadTypes) :
                    TypeMatches(t, k) /\ ReturnedType(k)
            ELSE /\ coding => ReturnedType(2)
                 /\ (~coding /\ media) => ReturnedType(1)
                 /\ (~coding /\ ~media /\ size) => ReturnedType(4)
                 /\ (~coding /\ ~media /\ ~size /\ speed) => ReturnedType(3)
                 /\ (~coding /\ ~media /\ ~size /\ ~speed) =>
                       params.type = Null
                 /\ text = <<"v","i","d","e","o"," ","f","o","r"," ","a"," ","d","e","v","e","l","o","p","e","r">> => ReturnedType(2)
                 /\ text = <<"b","i","g"," ","v","i","d","e","o">> => ReturnedType(1)
                 /\ text = <<"q","u","i","c","k"," ","b","i","g">> => ReturnedType(4)
                 /\ text = <<"q","u","i","c","k">> => ReturnedType(3)

\* size and speed keywords together, no pattern: the size rule gave the type
SizeBeforeSpeedWitness ==
    /\ ExtractorRan("extractWorkloadType")
    /\ message.text = Str(<<"q","u","i","c","k"," ","b","i","g">>)
    /\ params.type = Str(ollama_webui_large)

\* id has one of the forms of a workload identifier: a UUID, a name ending
\* in .comput3.ai, a wrk_ token, or a token of letters, digits, hyphens and
\* underscores
IdForm(id) ==
    LET t == LowerSeq(id)
    IN  \/ Len(t) = 36 /\ UuidAt(t, 1)
        \/ /\ Len(t) > 11
           /\ LitAt(t, Len(t) - 10, <<".","c","o","m","p","u","t","3",".","a","i">>)
           /\ RunEnd(t, 1, AlnumHyphenSet) = Len(t) - 10
        \/ /\ Len(t) > 4
           /\ LitAt(t, 1, <<"w","r","k","_">>)
           /\ RunEnd(t, 5, AlnumSet) = Len(t) + 1
        \/ Len(t) > 0 /\ RunEnd(t, 1, AlnumHyphenUnderscoreSet) = Len(t) + 1

\* C26: every stop request given to the HTTP collaborator carries an
\* identifier in one of the StopIntent forms, whichever path produced it.
StopRequestIdForm ==
    \A i \in 1..Len(requests) :
        requests[i].op = "stop" => IdForm(requests[i].workload)

\* tag stands in t as a token of its own, set off by white space
HasToken(t, tag) ==
    \E i \in 1..Len(t) :
        /\ LitAt(t, i, tag)
        /\ i = 1 \/ t[i - 1] \in SpaceSet
        /\ i + Len(tag) > Len(t) \/ t[i + Len(tag)] \in SpaceSet

LaunchMessageUnchanged == kind = "launch" => message = received

\* C29: whenever the HTTP collaborator completes a stopWorkload request with
\* a 2xx status, the stop turn ends with a success: true callback and the
\* handler returns true, whatever the body of the response.
StopSucceedsOn2xx ==
    (kind = "stop" /\ outcome.kind = "2xx") =>
        /\ result = "true"
        /\ callbacks[Len(callbacks)].success = "true"

\* C30: for all six handlers the returned boolean agrees with the outcome
\* reported: true exactly when the last callback of the turn carried
\* success = true, false exactly when it carried success = false.
ReturnAgreesWithCallback ==
    result # "none" =>
        /\ kind \in {"launch", "stop"} \cup QueryKinds
        /\ result \in {"true", "false"}
        /\ callbacks # << >>
        /\ callbacks[Len(callbacks)].success = result

\* a LIST_WORKLOADS turn that reported success and returned true
ListReportedWitness ==
    /\ kind = "list"
    /\ result = "true"
    /\ callbacks[Len(callbacks)].success = "true"
    /\ outcome.kind = "2xx"

====
